---- MODULE Spec2Model ----
(***************************************************************************)
(* Model of narwhal/worker/src/handlers.rs: the worker's two RPC handlers  *)
(* (WorkerReceiverHandler, PrimaryReceiverHandler) over the shared batch   *)
(* store.  Every handler call is a task; each store access, validator call *)
(* and outbound RPC of a call is one atomic step, and the steps of         *)
(* different calls interleave freely.                                      *)
(***************************************************************************)
EXTENDS Integers, Sequences, FiniteSets, TLC

VARIABLES
    store,      \* DBMap<BatchDigest, Batch>: digest -> Option<Batch>
    calls,      \* the handler tasks: call slot -> the call's locals and position
    arrivals    \* the number of calls received so far

vars == <<store, calls, arrivals>>

----------------------------------------------------------------------------
(* Bounds of the model *)

NumBatches == 3         \* distinct batches that exist
NumCalls == 2           \* handler calls in flight at the same time
MaxDigests == 2         \* length of the digest list of synchronize / delete_batches
MaxResponse == 2        \* batches in a peer's RequestBatchesResponse
MaxSync == 1            \* synchronize calls in flight at the same time
MaxScan == 1            \* request_batches calls in flight at the same time
MaxEdge == 2            \* digests before / after the filler of a request_batches list
MaxReportCalls == 3     \* calls received in a behaviour of SpecReport
MaxWriteCalls == 2      \* calls received in a behaviour of SpecWrite
MaxSyncCalls == 2       \* calls received in a behaviour of SpecSync
MaxScanCalls == 1       \* calls received in a behaviour of SpecScan
MaxSnapshotCalls == 3   \* calls received in a behaviour of SpecSnapshot
MaxLocalCalls == 2      \* calls received in a behaviour of SpecLocal
MaxLookupCalls == 3     \* calls received in a behaviour of SpecLookup

(* Program constants *)

MAX_REQUEST_BATCHES_RESPONSE_SIZE == 6000000
BATCH_DIGESTS_READ_CHUNK_SIZE == 200
id == 0                 \* WorkerId of this worker (self.id)

----------------------------------------------------------------------------
(* Data *)

\* Option<Batch>
None == <<>>
Some(b) == <<b>>
Batches == 1 .. NumBatches
CallIds == 1 .. NumCalls

\* Batch::digest(): a pure, collision-free function of the batch content.
digest(b) == <<"digest", b>>
Digests == {digest(b) : b \in Batches}

\* Batch::size() in bytes, by batch content.
BatchSizes == <<4000000, 2000001, 2000000, 6000001>>
size(b) == BatchSizes[((b - 1) % Len(BatchSizes)) + 1]

\* TransactionValidator::validate_batch: TRUE is Ok(()).  The plugged-in
\* validator rejects the batches with the highest content code.
validate_batch(b) == b < NumBatches

SeqsUpTo(S, n) == UNION {[1 .. k -> S] : k \in 0 .. n}
Range(s) == {s[k] : k \in 1 .. Len(s)}

RECURSIVE SumSizes(_)
SumSizes(bs) == IF bs = <<>> THEN 0 ELSE size(Head(bs)) + SumSizes(Tail(bs))

\* anemo::rpc::Status
Status(code, msg) == [status |-> code, message |-> msg]
Ok == Status("Ok", "")
NoResult == Status("running", "")

Idle == [op |-> "idle", pc |-> "idle", result |-> NoResult, log |-> <<>>, sent |-> <<>>]
Active(c, op) == calls[c].op = op /\ calls[c].pc \notin {"idle", "done"}
Done(c, op) == calls[c].op = op /\ calls[c].pc = "done"

\* WorkerOthersBatchMessage
WorkerOthersBatchMessage(d, w) == [digest |-> d, worker_id |-> w]

----------------------------------------------------------------------------
(* The store *)

\* Every content the store can have: each key holds the batch it is the digest of.
StoreContents == {[d \in Digests |-> IF d \in P THEN Some(CHOOSE b \in Batches : digest(b) = d) ELSE None] :
                    P \in SUBSET Digests}

insert(s, d, b) == [s EXCEPT ![d] = Some(b)]
remove(s, d) == [s EXCEPT ![d] = None]
get(s, d) == s[d]
multi_get(s, ds) == [k \in 1 .. Len(ds) |-> s[ds[k]]]

Return(rec, st) == [rec EXCEPT !.pc = "done", !.result = st]

\* The store as the call found it is a history field of the call in flight only.
Forget(rec) == [rec EXCEPT !.before = [d \in Digests |-> None]]

\* What the call in slot x becomes by a step of another call that leaves the
\* store as s2.  A call that has returned is visible in the state its return
\* leads to and its slot is free from then on.  The other changes are to
\* history fields, which never influence a handler; for a synchronize call:
\* elsewhere, the digests of its missing set that another call has inserted.
Observed(x, s2) ==
    IF calls[x].pc = "done" THEN Idle
    ELSE IF s2 = store THEN calls[x]
    ELSE IF Active(x, "delete_batches")
        THEN Forget([calls[x] EXCEPT !.interfered = TRUE])
    ELSE IF Active(x, "report_batch") /\ calls[x].pc = "notify"
            /\ s2[digest(calls[x].batch)] = None
        THEN [calls[x] EXCEPT !.removed_after_insert = TRUE]
    ELSE IF Active(x, "request_batches")
        THEN [calls[x] EXCEPT !.moments = Append(@, s2)]
    ELSE IF Active(x, "synchronize")
        THEN [calls[x] EXCEPT !.elsewhere = @ \cup {d \in calls[x].missing :
                                                        store[d] = None /\ s2[d] # None}]
    ELSE calls[x]

\* The step of call c: its record becomes rec, the store becomes s2.
Update(c, rec, s2) ==
    /\ calls' = [x \in CallIds |-> IF x = c THEN rec ELSE Observed(x, s2)]
    /\ store' = s2

Step(c, rec, s2) == Update(c, rec, s2) /\ UNCHANGED arrivals

\* The arrival of call c with record rec, in the first free slot.
Arrive(c, rec) ==
    /\ calls[c].pc \in {"idle", "done"}
    /\ \A x \in 1 .. c - 1 : calls[x].pc \notin {"idle", "done"}
    /\ Update(c, rec, store)
    /\ arrivals' = arrivals + 1

----------------------------------------------------------------------------
(* WorkerReceiverHandler::report_batch *)

StartReportBatch(c, b) ==
    /\ Arrive(c, [op |-> "report_batch", pc |-> "validate", batch |-> b,
                result |-> NoResult, log |-> <<>>, sent |-> <<>>,
                removed_after_insert |-> FALSE])

\* Mutant of ReportValidate: the validator's verdict is ignored.
ReportValidate_Ignored(c) ==
    /\ Active(c, "report_batch") /\ calls[c].pc = "validate"
    /\ LET r == calls[c]
           ok == validate_batch(r.batch)
       IN  Step(c, [r EXCEPT !.pc = "insert",
                             !.log = Append(@, <<"validate", r.batch, ok>>)], store)

\* Mutant of ReportValidate: an accepted batch is announced to the primary
\* before it is stored.
ReportValidate_ThenNotify(c) ==
    /\ Active(c, "report_batch") /\ calls[c].pc = "validate"
    /\ LET r == calls[c]
           ok == validate_batch(r.batch)
           r1 == [r EXCEPT !.log = Append(@, <<"validate", r.batch, ok>>)]
       IN  \/ /\ ~ok
              /\ Step(c, Return(r1, Status("BadRequest", "Invalid batch")), store)
           \/ /\ ok
              /\ Step(c, [r1 EXCEPT !.pc = "notify"], store)

\* lines 43-49: validate_batch; an Err returns BadRequest.
ReportValidate(c) ==
    /\ Active(c, "report_batch") /\ calls[c].pc = "validate"
    /\ LET r == calls[c]
           ok == validate_batch(r.batch)
           r1 == [r EXCEPT !.log = Append(@, <<"validate", r.batch, ok>>)]
       IN  \/ /\ ~ok
              /\ Step(c, Return(r1, Status("BadRequest", "Invalid batch")), store)
           \/ /\ ok
              /\ Step(c, [r1 EXCEPT !.pc = "insert"], store)

\* Mutant of ReportInsert: the batch is not written.
ReportInsert_NoWrite(c) ==
    /\ Active(c, "report_batch") /\ calls[c].pc = "insert"
    /\ LET r == calls[c]
           d == digest(r.batch)
       IN  Step(c, [r EXCEPT !.pc = "notify",
                             !.log = Append(@, <<"insert", d, r.batch>>)], store)

\* Mutant of ReportInsert: a batch whose digest is in the store already is
\* neither written nor announced again.
ReportInsert_SkipsKnown(c) ==
    /\ Active(c, "report_batch") /\ calls[c].pc = "insert"
    /\ LET r == calls[c]
           d == digest(r.batch)
       IN  \/ /\ get(store, d) # None
              /\ Step(c, Return(r, Ok), store)
           \/ /\ get(store, d) = None
              /\ Step(c, [r EXCEPT !.pc = "notify",
                                   !.log = Append(@, <<"insert", d, r.batch>>)],
                      insert(store, d, r.batch))
           \/ Step(c, Return([r EXCEPT !.log = Append(@, <<"insert_err", d>>)],
                             Status("Internal", "failed to write to batch store")), store)

\* lines 50-53: store.insert(digest, batch); a store error returns Internal.
ReportInsert(c) ==
    /\ Active(c, "report_batch") /\ calls[c].pc = "insert"
    /\ LET r == calls[c]
           d == digest(r.batch)
       IN  \/ Step(c, [r EXCEPT !.pc = "notify",
                                !.log = Append(@, <<"insert", d, r.batch>>)],
                   insert(store, d, r.batch))
           \/ Step(c, Return([r EXCEPT !.log = Append(@, <<"insert_err", d>>)],
                             Status("Internal", "failed to write to batch store")), store)

\* Mutant of ReportNotify: the message names the worker that sent the batch
\* (another worker id) instead of self.id.
ReportNotify_OtherWorker(c) ==
    /\ Active(c, "report_batch") /\ calls[c].pc = "notify"
    /\ LET r == calls[c]
           m == WorkerOthersBatchMessage(digest(r.batch), id + 1)
       IN  Step(c, Return([r EXCEPT !.sent = Append(@, m),
                                    !.log = Append(@, <<"notify", m>>)], Ok), store)

\* lines 54-61: client.report_others_batch(..).await; an error returns Internal,
\* success returns Ok.
ReportNotify(c) ==
    /\ Active(c, "report_batch") /\ calls[c].pc = "notify"
    /\ LET r == calls[c]
           m == WorkerOthersBatchMessage(digest(r.batch), id)
       IN  \/ Step(c, Return([r EXCEPT !.sent = Append(@, m),
                                         !.log = Append(@, <<"notify", m>>)], Ok), store)
           \/ Step(c, Return([r EXCEPT !.log = Append(@, <<"notify_err", m>>)],
                             Status("Internal", "report_others_batch failed")), store)

----------------------------------------------------------------------------
(* WorkerReceiverHandler::request_batch *)

StartRequestBatch(c, d) ==
    /\ Arrive(c, [op |-> "request_batch", pc |-> "get", batch |-> d, response |-> None,
                result |-> NoResult, log |-> <<>>, sent |-> <<>>])

\* Mutant of RequestBatchGet: a digest that is not in the store is an error.
RequestBatchGet_NotFound(c) ==
    /\ Active(c, "request_batch") /\ calls[c].pc = "get"
    /\ LET r == calls[c]
           batch == get(store, r.batch)
       IN  \/ /\ batch # None
              /\ Step(c, Return([r EXCEPT !.response = batch,
                                          !.log = Append(@, <<"get", r.batch>>)], Ok), store)
           \/ /\ batch = None
              /\ Step(c, Return([r EXCEPT !.log = Append(@, <<"get", r.batch>>)],
                                Status("NotFound", "batch not found")), store)
           \/ Step(c, Return([r EXCEPT !.log = Append(@, <<"get_err", r.batch>>)],
                             Status("Internal", "failed to read from batch store")), store)

\* lines 69-74: one store.get; the response carries what it returned (the
\* batch or None); a store error returns Internal.
RequestBatchGet(c) ==
    /\ Active(c, "request_batch") /\ calls[c].pc = "get"
    /\ LET r == calls[c]
           batch == get(store, r.batch)
       IN  \/ Step(c, Return([r EXCEPT !.response = batch,
                                       !.log = Append(@, <<"get", r.batch>>)], Ok), store)
           \/ Step(c, Return([r EXCEPT !.log = Append(@, <<"get_err", r.batch>>)],
                             Status("Internal", "failed to read from batch store")), store)

----------------------------------------------------------------------------
(* PrimaryReceiverHandler::delete_batches *)

StartDeleteBatches(c, ds) ==
    /\ Arrive(c, [op |-> "delete_batches", pc |-> "remove", digests |-> ds, i |-> 1,
                result |-> NoResult, log |-> <<>>, sent |-> <<>>,
                before |-> store, interfered |-> FALSE])

\* Mutant of DeleteRemove: a digest that is not in the store ends the loop.
DeleteRemove_AbsentEndsLoop(c) ==
    /\ Active(c, "delete_batches") /\ calls[c].i <= Len(calls[c].digests)
    /\ LET r == calls[c]
           d == r.digests[r.i]
       IN  Step(c, [r EXCEPT !.i = IF get(store, d) = None THEN Len(r.digests) + 1 ELSE @ + 1,
                             !.log = Append(@, <<"remove", d, get(store, d) # None>>)],
                remove(store, d))

\* lines 254-258: one store.remove per digest; a store error returns Internal.
DeleteRemove(c) ==
    /\ Active(c, "delete_batches") /\ calls[c].i <= Len(calls[c].digests)
    /\ LET r == calls[c]
           d == r.digests[r.i]
       IN  \/ Step(c, [r EXCEPT !.i = @ + 1,
                                !.log = Append(@, <<"remove", d, get(store, d) # None>>)],
                   remove(store, d))
           \/ Step(c, Return(Forget([r EXCEPT !.log = Append(@, <<"remove_err", d>>)]),
                             Status("Internal", "failed to remove from batch store")), store)

\* line 259
DeleteReturn(c) ==
    /\ Active(c, "delete_batches") /\ calls[c].i > Len(calls[c].digests)
    /\ Step(c, Return(Forget(calls[c]), Ok), store)

----------------------------------------------------------------------------
(* WorkerReceiverHandler::request_batches *)

Min(a, b) == IF a <= b THEN a ELSE b

\* digests_to_fetch.chunks(BATCH_DIGESTS_READ_CHUNK_SIZE)
NumChunks(ds) == (Len(ds) + BATCH_DIGESTS_READ_CHUNK_SIZE - 1) \div BATCH_DIGESTS_READ_CHUNK_SIZE
Chunk(ds, k) == SubSeq(ds, (k - 1) * BATCH_DIGESTS_READ_CHUNK_SIZE + 1,
                       Min(k * BATCH_DIGESTS_READ_CHUNK_SIZE, Len(ds)))

\* stored_batches.into_iter().flatten(): the batches that are present, in order.
IsSome(o) == o # None
flatten(stored_batches) ==
    LET present == SelectSeq(stored_batches, IsSome)
    IN  [k \in 1 .. Len(present) |-> present[k][1]]

\* Mutant of ScanChunk: the budget is compared with the size accumulated so
\* far, not with the size the batch would bring it to.
RECURSIVE ScanChunk_CheckBefore(_, _, _)
ScanChunk_CheckBefore(acc, present, k) ==
    IF k > Len(present) THEN acc
    ELSE LET stored_batch == present[k]
             batch_size == size(stored_batch)
         IN  IF acc.total_size <= MAX_REQUEST_BATCHES_RESPONSE_SIZE
             THEN ScanChunk_CheckBefore([acc EXCEPT !.batches = Append(@, stored_batch),
                                                    !.total_size = @ + batch_size,
                                                    !.late = @ \/ acc.is_size_limit_reached],
                                        present, k + 1)
             ELSE [acc EXCEPT !.is_size_limit_reached = TRUE]

\* Mutant of ScanChunk: the batches of a chunk are put in front of the response.
RECURSIVE ScanChunk_Prepend(_, _, _)
ScanChunk_Prepend(acc, present, k) ==
    IF k > Len(present) THEN acc
    ELSE LET stored_batch == present[k]
             batch_size == size(stored_batch)
         IN  IF acc.total_size + batch_size <= MAX_REQUEST_BATCHES_RESPONSE_SIZE
             THEN ScanChunk_Prepend([acc EXCEPT !.batches = <<stored_batch>> \o @,
                                                !.total_size = @ + batch_size,
                                                !.late = @ \/ acc.is_size_limit_reached],
                                    present, k + 1)
             ELSE [acc EXCEPT !.is_size_limit_reached = TRUE]

\* Mutant of ScanChunk: a batch that does not fit is skipped and the scan goes on.
RECURSIVE ScanChunk_SkipSilently(_, _, _)
ScanChunk_SkipSilently(acc, present, k) ==
    IF k > Len(present) THEN acc
    ELSE LET stored_batch == present[k]
             batch_size == size(stored_batch)
         IN  IF acc.total_size + batch_size <= MAX_REQUEST_BATCHES_RESPONSE_SIZE
             THEN ScanChunk_SkipSilently([acc EXCEPT !.batches = Append(@, stored_batch),
                                                     !.total_size = @ + batch_size,
                                                     !.late = @ \/ acc.is_size_limit_reached],
                                         present, k + 1)
             ELSE IF k < Len(present) THEN ScanChunk_SkipSilently(acc, present, Len(present))
             ELSE acc

\* lines 98-107: the inner loop over the present batches of one chunk, from
\* position k.  acc holds batches, total_size, is_size_limit_reached (and the
\* history field late: a batch was appended when the limit had been reached).
\* The break leaves this loop only.
RECURSIVE ScanChunk(_, _, _)
ScanChunk(acc, present, k) ==
    IF k > Len(present) THEN acc
    ELSE LET stored_batch == present[k]
             batch_size == size(stored_batch)
         IN  IF acc.total_size + batch_size <= MAX_REQUEST_BATCHES_RESPONSE_SIZE
             THEN ScanChunk([acc EXCEPT !.batches = Append(@, stored_batch),
                                        !.total_size = @ + batch_size,
                                        !.late = @ \/ acc.is_size_limit_reached],
                            present, k + 1)
             ELSE [acc EXCEPT !.is_size_limit_reached = TRUE]

StartRequestBatches(c, ds) ==
    /\ Cardinality({x \in CallIds : Active(x, "request_batches")}) < MaxScan
    /\ Arrive(c, [op |-> "request_batches", pc |-> "read", digests |-> ds, chunk |-> 1,
                batches |-> <<>>, total_size |-> 0, is_size_limit_reached |-> FALSE,
                late |-> FALSE, moments |-> <<store>>, read_at |-> <<>>, origin |-> <<>>,
                result |-> NoResult, log |-> <<>>, sent |-> <<>>])

\* lines 93-108: one iteration of the outer loop: a single multi_get of the
\* chunk, then the scan of its result.  A store error returns Internal.
\* History fields: moments are the contents the store has had during the call,
\* read_at[k] is the moment of the k-th multi_get, origin[n] is the chunk the
\* n-th batch of the response was read in.
RequestBatchesChunk(c) ==
    /\ Active(c, "request_batches") /\ calls[c].chunk <= NumChunks(calls[c].digests)
    /\ LET r == calls[c]
           stored_batches == multi_get(store, Chunk(r.digests, r.chunk))
           acc == ScanChunk([batches |-> r.batches, total_size |-> r.total_size,
                             is_size_limit_reached |-> r.is_size_limit_reached,
                             late |-> r.late], flatten(stored_batches), 1)
       IN  \/ Step(c, [r EXCEPT !.chunk = @ + 1,
                                !.batches = acc.batches,
                                !.total_size = acc.total_size,
                                !.is_size_limit_reached = acc.is_size_limit_reached,
                                !.late = acc.late,
                                !.read_at = Append(@, Len(r.moments)),
                                !.origin = @ \o [k \in 1 .. Len(acc.batches) - Len(r.batches)
                                                    |-> r.chunk]], store)
           \/ Step(c, Return(r, Status("Internal", "failed to read from batch store")), store)

\* lines 110-113
RequestBatchesReturn(c) ==
    /\ Active(c, "request_batches") /\ calls[c].chunk > NumChunks(calls[c].digests)
    /\ Step(c, Return(calls[c], Ok), store)

----------------------------------------------------------------------------
(* PrimaryReceiverHandler::synchronize *)

\* The configuration of the handler: the authorities the committee knows, those
\* whose worker `id` the worker cache knows, and those whose worker is a
\* connected peer of the network.
Authorities == {"A", "B", "C", "D"}
committee == {"A", "B", "C"}
worker_cache == {"A", "B"}
peers == {"A"}

\* The orders in which a HashSet can be iterated.
Orders(S) == {s \in [1 .. Cardinality(S) -> S] : Range(s) = S}

StartSynchronize(c, net, ds, target, is_certified) ==
    /\ Cardinality({x \in CallIds : Active(x, "synchronize")}) < MaxSync
    /\ Arrive(c, [op |-> "synchronize", pc |-> "network", network |-> net,
                digests |-> ds, target |-> target, is_certified |-> is_certified,
                i |-> 1, missing |-> {}, request |-> <<>>, rpcs |-> 0,
                response |-> <<>>, j |-> 1, elsewhere |-> {},
                result |-> NoResult, log |-> <<>>, sent |-> <<>>])

\* Mutant of SynchronizeNetwork: the probe starts whether or not a network is
\* configured.
SynchronizeNetwork_Unchecked(c) ==
    /\ Active(c, "synchronize") /\ calls[c].pc = "network"
    /\ Step(c, [calls[c] EXCEPT !.pc = "probe"], store)

\* lines 147-152
SynchronizeNetwork(c) ==
    /\ Active(c, "synchronize") /\ calls[c].pc = "network"
    /\ \/ /\ ~calls[c].network
          /\ Step(c, Return(calls[c], Status("BadRequest", "synchronize() is unsupported via RPC interface")), store)
       \/ /\ calls[c].network
          /\ Step(c, [calls[c] EXCEPT !.pc = "probe"], store)

\* lines 155-171: one store.get per requested digest.
SynchronizeProbe(c) ==
    /\ Active(c, "synchronize") /\ calls[c].pc = "probe"
    /\ calls[c].i <= Len(calls[c].digests)
    /\ LET r == calls[c]
           d == r.digests[r.i]
       IN  \/ /\ get(store, d) = None
              /\ Step(c, [r EXCEPT !.i = @ + 1, !.missing = @ \cup {d},
                                   !.log = Append(@, <<"probe", d, FALSE>>)], store)
           \/ /\ get(store, d) # None
              /\ Step(c, [r EXCEPT !.i = @ + 1,
                                   !.log = Append(@, <<"probe", d, TRUE>>)], store)
           \/ Step(c, Return(r, Status("Internal", "failed to read from batch store")), store)

\* lines 172-195: nothing missing returns Ok; otherwise the target's worker is
\* resolved: committee.authority(target).unwrap(), worker_cache.worker(..),
\* network.peer(..).
SynchronizeResolve(c) ==
    /\ Active(c, "synchronize") /\ calls[c].pc = "probe"
    /\ calls[c].i > Len(calls[c].digests)
    /\ LET r == calls[c]
       IN  \/ /\ r.missing = {}
              /\ Step(c, Return(r, Ok), store)
           \/ /\ r.missing # {} /\ r.target \notin committee
              /\ Step(c, Return(r, Status("panic", "called Option::unwrap() on a None value")), store)
           \/ /\ r.missing # {} /\ r.target \in committee /\ r.target \notin worker_cache
              /\ Step(c, Return(r, Status("Internal", "The primary asked worker to sync with an unknown node")), store)
           \/ /\ r.missing # {} /\ r.target \in committee /\ r.target \in worker_cache
              /\ r.target \notin peers
              /\ Step(c, Return(r, Status("Internal", "Not connected with worker peer")), store)
           \/ /\ r.missing # {} /\ r.target \in committee /\ r.target \in worker_cache
              /\ r.target \in peers
              /\ Step(c, [r EXCEPT !.pc = "rpc"], store)

\* Mutant of SynchronizeRpc: the peer is asked for the digest list of the
\* message as it came.
SynchronizeRpc_RequestsAll(c) ==
    /\ Active(c, "synchronize") /\ calls[c].pc = "rpc"
    /\ LET r == calls[c]
           r1 == [r EXCEPT !.request = r.digests, !.rpcs = @ + 1,
                           !.log = Append(@, <<"rpc", r.digests>>)]
       IN  \/ \E batches \in SeqsUpTo(Batches, MaxResponse) :
                 Step(c, [r1 EXCEPT !.pc = "process", !.response = batches], store)
           \/ Step(c, Return(r1, Status("RequestTimeout", "request_batches")), store)

\* lines 199-206: one request_batches RPC for the missing digests; the peer
\* answers with any batches, or the RPC fails and its status is returned.
SynchronizeRpc(c) ==
    /\ Active(c, "synchronize") /\ calls[c].pc = "rpc"
    /\ LET r == calls[c]
       IN  \E request \in Orders(r.missing) :
             LET r1 == [r EXCEPT !.request = request, !.rpcs = @ + 1,
                                 !.log = Append(@, <<"rpc", request>>)]
             IN  \/ \E batches \in SeqsUpTo(Batches, MaxResponse) :
                       Step(c, [r1 EXCEPT !.pc = "process", !.response = batches], store)
                 \/ Step(c, Return(r1, Status("RequestTimeout", "request_batches")), store)

\* Mutant of SynchronizeBatch: every batch of the response is stored, in the
\* missing set or not.
SynchronizeBatch_StoresAll(c) ==
    /\ Active(c, "synchronize") /\ calls[c].pc = "process"
    /\ calls[c].j <= Len(calls[c].response)
    /\ LET r == calls[c]
           batch == r.response[r.j]
           ok == validate_batch(batch)
           r1 == IF r.is_certified THEN r
                 ELSE [r EXCEPT !.log = Append(@, <<"validate", batch, ok>>)]
           d == digest(batch)
       IN  \/ /\ ~r.is_certified /\ ~ok
              /\ Step(c, Return(r1, Status("BadRequest", "Invalid batch")), store)
           \/ /\ r.is_certified \/ ok
              /\ Step(c, [r1 EXCEPT !.j = @ + 1, !.missing = @ \ {d},
                                    !.log = Append(@, <<"insert", d, batch>>)],
                      insert(store, d, batch))

\* Mutant of SynchronizeBatch: the batch is stored first and validated after.
SynchronizeBatch_ValidatesAfter(c) ==
    /\ Active(c, "synchronize") /\ calls[c].pc = "process"
    /\ calls[c].j <= Len(calls[c].response)
    /\ LET r == calls[c]
           batch == r.response[r.j]
           ok == validate_batch(batch)
           d == digest(batch)
           r1 == IF d \in r.missing
                 THEN [r EXCEPT !.missing = @ \ {d}, !.log = Append(@, <<"insert", d, batch>>)]
                 ELSE r
           s1 == IF d \in r.missing THEN insert(store, d, batch) ELSE store
           r2 == [r1 EXCEPT !.log = Append(@, <<"validate", batch, ok>>)]
       IN  \/ /\ ~ok
              /\ Step(c, Return(r2, Status("BadRequest", "Invalid batch")), s1)
           \/ /\ ok
              /\ Step(c, [r2 EXCEPT !.j = @ + 1], s1)

\* Mutant of SynchronizeBatch: a batch the call did not ask for fails the call.
SynchronizeBatch_FailsOnUnrequested(c) ==
    /\ Active(c, "synchronize") /\ calls[c].pc = "process"
    /\ calls[c].j <= Len(calls[c].response)
    /\ LET r == calls[c]
           batch == r.response[r.j]
           ok == validate_batch(batch)
           r1 == IF r.is_certified THEN r
                 ELSE [r EXCEPT !.log = Append(@, <<"validate", batch, ok>>)]
           d == digest(batch)
       IN  \/ /\ ~r.is_certified /\ ~ok
              /\ Step(c, Return(r1, Status("BadRequest", "Invalid batch")), store)
           \/ /\ r.is_certified \/ ok
              /\ d \in r.missing
              /\ Step(c, [r1 EXCEPT !.j = @ + 1, !.missing = @ \ {d},
                                    !.log = Append(@, <<"insert", d, batch>>)],
                      insert(store, d, batch))
           \/ /\ r.is_certified \/ ok
              /\ d \notin r.missing
              /\ Step(c, Return(r1, Status("Internal", "unexpected batch")), store)

\* Mutant of SynchronizeBatch: when the validator rejects a batch, the batches
\* the call has stored so far are removed again.
SynchronizeBatch_RollsBack(c) ==
    /\ Active(c, "synchronize") /\ calls[c].pc = "process"
    /\ calls[c].j <= Len(calls[c].response)
    /\ LET r == calls[c]
           batch == r.response[r.j]
           ok == validate_batch(batch)
           r1 == IF r.is_certified THEN r
                 ELSE [r EXCEPT !.log = Append(@, <<"validate", batch, ok>>)]
           d == digest(batch)
           stored == {r.log[k][2] : k \in {n \in 1 .. Len(r.log) : r.log[n][1] = "insert"}}
       IN  \/ /\ ~r.is_certified /\ ~ok
              /\ Step(c, Return(r1, Status("BadRequest", "Invalid batch")),
                      [x \in Digests |-> IF x \in stored THEN None ELSE store[x]])
           \/ /\ r.is_certified \/ ok
              /\ d \in r.missing
              /\ \/ Step(c, [r1 EXCEPT !.j = @ + 1, !.missing = @ \ {d},
                                       !.log = Append(@, <<"insert", d, batch>>)],
                         insert(store, d, batch))
                 \/ Step(c, Return([r1 EXCEPT !.missing = @ \ {d},
                                              !.log = Append(@, <<"insert_err", d>>)],
                                   Status("Internal", "failed to write to batch store")), store)
           \/ /\ r.is_certified \/ ok
              /\ d \notin r.missing
              /\ Step(c, [r1 EXCEPT !.j = @ + 1], store)

\* lines 207-223: one iteration of the loop over response.batches.
SynchronizeBatch(c) ==
    /\ Active(c, "synchronize") /\ calls[c].pc = "process"
    /\ calls[c].j <= Len(calls[c].response)
    /\ LET r == calls[c]
           batch == r.response[r.j]
           ok == validate_batch(batch)
           r1 == IF r.is_certified THEN r
                 ELSE [r EXCEPT !.log = Append(@, <<"validate", batch, ok>>)]
           d == digest(batch)
       IN  \/ /\ ~r.is_certified /\ ~ok
              /\ Step(c, Return(r1, Status("BadRequest", "Invalid batch")), store)
           \/ /\ r.is_certified \/ ok
              /\ d \in r.missing
              /\ \/ Step(c, [r1 EXCEPT !.j = @ + 1, !.missing = @ \ {d},
                                       !.log = Append(@, <<"insert", d, batch>>)],
                         insert(store, d, batch))
                 \/ Step(c, Return([r1 EXCEPT !.missing = @ \ {d},
                                              !.log = Append(@, <<"insert_err", d>>)],
                                   Status("Internal", "failed to write to batch store")), store)
           \/ /\ r.is_certified \/ ok
              /\ d \notin r.missing
              /\ Step(c, [r1 EXCEPT !.j = @ + 1], store)

\* Mutant of SynchronizeReturn: the call returns Ok once the response has been
\* processed, whatever is still missing.
SynchronizeReturn_AlwaysOk(c) ==
    /\ Active(c, "synchronize") /\ calls[c].pc = "process"
    /\ calls[c].j > Len(calls[c].response)
    /\ Step(c, Return(calls[c], Ok), store)

\* Mutant of SynchronizeReturn: the test of the missing set is inverted.
SynchronizeReturn_Inverted(c) ==
    /\ Active(c, "synchronize") /\ calls[c].pc = "process"
    /\ calls[c].j > Len(calls[c].response)
    /\ \/ /\ calls[c].missing # {}
          /\ Step(c, Return(calls[c], Ok), store)
       \/ /\ calls[c].missing = {}
          /\ Step(c, Return(calls[c], Status("Internal", "failed to synchronize batches!")), store)

\* lines 225-230
SynchronizeReturn(c) ==
    /\ Active(c, "synchronize") /\ calls[c].pc = "process"
    /\ calls[c].j > Len(calls[c].response)
    /\ \/ /\ calls[c].missing = {}
          /\ Step(c, Return(calls[c], Ok), store)
       \/ /\ calls[c].missing # {}
          /\ Step(c, Return(calls[c], Status("Internal", "failed to synchronize batches!")), store)

----------------------------------------------------------------------------
(* PrimaryReceiverHandler::fetch_batches *)

\* BatchFetcher::fetch(digests, known_workers): the mappings it can return, from
\* the digests it obtained to their batches.
fetch(digests, known_workers) ==
    {[d \in S |-> CHOOSE b \in Batches : digest(b) = d] : S \in SUBSET digests}

StartFetchBatches(c, fetcher, ds, known_workers) ==
    /\ Arrive(c, [op |-> "fetch_batches", pc |-> "batch_fetcher", batch_fetcher |-> fetcher,
                digests |-> ds, known_workers |-> known_workers, batches |-> <<>>,
                result |-> NoResult, log |-> <<>>, sent |-> <<>>])

\* lines 237-242
FetchBatchesFetcher(c) ==
    /\ Active(c, "fetch_batches") /\ calls[c].pc = "batch_fetcher"
    /\ \/ /\ ~calls[c].batch_fetcher
          /\ Step(c, Return(calls[c], Status("BadRequest", "fetch_batches() is unsupported via RPC interface")), store)
       \/ /\ calls[c].batch_fetcher
          /\ Step(c, [calls[c] EXCEPT !.pc = "fetch"], store)

\* lines 243-247: the request is handed to the fetcher and its result is
\* returned as it is.
FetchBatchesFetch(c) ==
    /\ Active(c, "fetch_batches") /\ calls[c].pc = "fetch"
    /\ LET r == calls[c]
       IN  \E batches \in fetch(r.digests, r.known_workers) :
             Step(c, Return([r EXCEPT !.batches = batches,
                                      !.log = Append(@, <<"fetch", r.digests, r.known_workers>>)],
                            Ok), store)

----------------------------------------------------------------------------
(* Inputs *)

DigestLists == SeqsUpTo(Digests, MaxDigests)

\* n copies of digest d
Filler(d, n) == [k \in 1 .. n |-> d]

\* The digest lists of request_batches: up to MaxEdge digests, a filler that
\* ends at, one before or one after a chunk boundary (or no filler), and up to
\* MaxEdge digests.
RequestLists ==
    {head \o Filler(d, n) \o tail :
        head \in SeqsUpTo(Digests, MaxEdge), tail \in SeqsUpTo(Digests, MaxEdge),
        d \in Digests,
        n \in {0, BATCH_DIGESTS_READ_CHUNK_SIZE - 1, BATCH_DIGESTS_READ_CHUNK_SIZE}}

\* Digest lists of request_batches that span two chunks (one digest, a filler
\* to the end of the first chunk, one digest), and the lists of one digest.
TwoChunkLists ==
    {<<d1>> \o Filler(d, BATCH_DIGESTS_READ_CHUNK_SIZE - 1) \o <<d2>> :
        d1 \in Digests, d \in Digests, d2 \in Digests}
    \cup {<<d>> : d \in Digests}

\* The digest sets of fetch_batches: no digest, one digest, every digest.
DigestSets == {{}, Digests} \cup {{d} : d \in Digests}

----------------------------------------------------------------------------
(* Specifications *)

Init ==
    /\ store \in StoreContents
    /\ calls = [c \in CallIds |-> Idle]
    /\ arrivals = 0

ReportBatch(n) ==
    \/ arrivals < n /\ \E c \in CallIds, b \in Batches : StartReportBatch(c, b)
    \/ \E c \in CallIds : ReportValidate(c)
    \/ \E c \in CallIds : ReportInsert(c)
    \/ \E c \in CallIds : ReportNotify(c)

DeleteBatches(n, lists) ==
    \/ arrivals < n /\ \E c \in CallIds, ds \in lists : StartDeleteBatches(c, ds)
    \/ \E c \in CallIds : DeleteRemove(c)
    \/ \E c \in CallIds : DeleteReturn(c)

Synchronize(n) ==
    \/ arrivals < n /\ \E c \in CallIds, net \in BOOLEAN, ds \in DigestLists,
                           target \in Authorities, is_certified \in BOOLEAN :
                            StartSynchronize(c, net, ds, target, is_certified)
    \/ \E c \in CallIds : SynchronizeNetwork(c)
    \/ \E c \in CallIds : SynchronizeProbe(c)
    \/ \E c \in CallIds : SynchronizeResolve(c)
    \/ \E c \in CallIds : SynchronizeRpc(c)
    \/ \E c \in CallIds : SynchronizeBatch(c)
    \/ \E c \in CallIds : SynchronizeReturn(c)

RequestBatches(n, lists) ==
    \/ arrivals < n /\ \E c \in CallIds, ds \in lists : StartRequestBatches(c, ds)
    \/ \E c \in CallIds : RequestBatchesChunk(c)
    \/ \E c \in CallIds : RequestBatchesReturn(c)

RequestBatch(n) ==
    \/ arrivals < n /\ \E c \in CallIds, d \in Digests : StartRequestBatch(c, d)
    \/ \E c \in CallIds : RequestBatchGet(c)

FetchBatches(n) ==
    \/ arrivals < n /\ \E c \in CallIds, fetcher \in BOOLEAN, ds \in DigestSets,
                           known_workers \in {{}, worker_cache} :
                            StartFetchBatches(c, fetcher, ds, known_workers)
    \/ \E c \in CallIds : FetchBatchesFetcher(c)
    \/ \E c \in CallIds : FetchBatchesFetch(c)

\* report_batch and delete_batches calls
NextReport == ReportBatch(MaxReportCalls) \/ DeleteBatches(MaxReportCalls, DigestLists)
SpecReport == Init /\ [][NextReport]_vars

\* report_batch, delete_batches and synchronize calls
NextWrite == ReportBatch(MaxWriteCalls) \/ DeleteBatches(MaxWriteCalls, DigestLists)
                \/ Synchronize(MaxWriteCalls)
SpecWrite == Init /\ [][NextWrite]_vars

\* synchronize and report_batch calls
NextSync == Synchronize(MaxSyncCalls) \/ ReportBatch(MaxSyncCalls)
SpecSync == Init /\ [][NextSync]_vars

\* request_batches calls, one after the other
NextScan == RequestBatches(MaxScanCalls, RequestLists)
SpecScan == Init /\ [][NextScan]_vars

\* a request_batches call, and the report_batch and delete_batches calls that
\* arrive after it
NextSnapshot ==
    \/ arrivals = 0 /\ RequestBatches(MaxSnapshotCalls, TwoChunkLists)
    \/ arrivals > 0 /\ RequestBatches(MaxSnapshotCalls, TwoChunkLists)
    \/ arrivals > 0 /\ ReportBatch(MaxSnapshotCalls)
    \/ arrivals > 0 /\ DeleteBatches(MaxSnapshotCalls, SeqsUpTo(Digests, 1))
SpecSnapshot == Init /\ [][NextSnapshot]_vars

\* the calls of the local primary: synchronize and fetch_batches
NextLocal == Synchronize(MaxLocalCalls) \/ FetchBatches(MaxLocalCalls)
SpecLocal == Init /\ [][NextLocal]_vars

\* request_batch calls, with report_batch and delete_batches calls
NextLookup == RequestBatch(MaxLookupCalls) \/ ReportBatch(MaxLookupCalls)
                \/ DeleteBatches(MaxLookupCalls, SeqsUpTo(Digests, 1))
SpecLookup == Init /\ [][NextLookup]_vars

----------------------------------------------------------------------------
(* Claims about report_batch and delete_batches *)

ReportReturned(c) == Done(c, "report_batch")
Stored(b) == get(store, digest(b)) = Some(b)

\* C1 as stated: at the moment a report_batch(b) call returns Ok, the store
\* maps digest(b) to b, whatever report_batch, synchronize and delete_batches
\* calls ran meanwhile.  (A call that has returned is visible in the state its
\* return leads to.)
C1_StoredAtReturn ==
    \A c \in CallIds :
        ReportReturned(c) /\ calls[c].result = Ok => Stored(calls[c].batch)

\* C1 as amended: at the moment a report_batch(b) call returns Ok, the store
\* maps digest(b) to b unless a delete_batches call removed digest(b) between
\* the call's insert and its return; no report_batch or synchronize call that
\* runs meanwhile changes the entry.
C1_StoredAtReturnUnlessRemoved ==
    \A c \in CallIds :
        ReportReturned(c) /\ calls[c].result = Ok /\ ~calls[c].removed_after_insert
            => Stored(calls[c].batch)

\* A report_batch call returns Ok with its batch stored while another call is
\* in flight.
C1_Witness ==
    \E c \in CallIds :
        /\ ReportReturned(c) /\ calls[c].result = Ok
        /\ ~calls[c].removed_after_insert /\ Stored(calls[c].batch)
        /\ \E x \in CallIds : x # c /\ calls[x].pc \notin {"idle", "done"}

\* C2: a report_batch(b) call that returns Ok has sent exactly one
\* report_others_batch message, with digest = digest(b) and worker_id = self.id;
\* a call that returns because the validation or the store insert failed has
\* sent none.
C2_OneNotificationPerOk ==
    \A c \in CallIds :
        ReportReturned(c) =>
            /\ calls[c].result = Ok =>
                   calls[c].sent = <<[digest |-> digest(calls[c].batch), worker_id |-> id]>>
            /\ ( \/ calls[c].result.status = "BadRequest"
                 \/ calls[c].result.message = "failed to write to batch store" )
                   => calls[c].sent = <<>>

\* A report_batch call has returned Ok.
C2_Witness ==
    \E c \in CallIds : ReportReturned(c) /\ calls[c].result = Ok /\ Len(calls[c].sent) = 1

\* The step by which call c leaves position pc.
Leaves(c, op, pc) == calls[c].op = op /\ calls[c].pc = pc /\ calls'[c].pc # pc

\* C3: when the validator rejects the batch, report_batch returns BadRequest
\* by its first step, which leaves the store as it was and sends no
\* notification.
C3_RejectedBatch ==
    [][\A c \in CallIds :
          Leaves(c, "report_batch", "validate") /\ ~validate_batch(calls[c].batch)
              => /\ calls'[c].pc = "done"
                 /\ calls'[c].result.status = "BadRequest"
                 /\ store' = store
                 /\ calls'[c].sent = <<>>
                 /\ calls[c].log = <<>>]_vars

\* A report_batch call of a batch the validator rejects has returned BadRequest.
C3_Witness ==
    \E c \in CallIds :
        /\ ReportReturned(c) /\ ~validate_batch(calls[c].batch)
        /\ calls[c].result.status = "BadRequest"

\* The store after delete_batches(ds) on store content s.
WithoutDigests(s, ds) == [d \in Digests |-> IF d \in Range(ds) THEN None ELSE s[d]]

\* The return of a delete_batches call during which no other call wrote the store.
DeleteReturnsUndisturbed(c) ==
    /\ Active(c, "delete_batches") /\ calls'[c].pc = "done"
    /\ ~calls[c].interfered

\* C8 as stated: a delete_batches(D) call during which no other call writes
\* the store returns Ok, with no digest of D in the store and every other
\* entry as it was when the call arrived, and sends no notification.
C8_DeleteFrame ==
    [][\A c \in CallIds :
          DeleteReturnsUndisturbed(c)
              => /\ calls'[c].result = Ok
                 /\ store' = WithoutDigests(calls[c].before, calls[c].digests)
                 /\ calls'[c].sent = <<>>]_vars

\* C8 as amended: such a call returns Ok unless a store.remove fails, and then
\* it returns Internal; when it returns Ok, no digest of D is in the store and
\* every other entry is as it was when the call arrived; no notification is
\* sent in either case.
C8_DeleteFrameUnlessStoreError ==
    [][\A c \in CallIds :
          DeleteReturnsUndisturbed(c)
              => /\ calls'[c].result = Ok
                     \/ /\ calls'[c].result = Status("Internal", "failed to remove from batch store")
                        /\ calls'[c].log[Len(calls'[c].log)][1] = "remove_err"
                 /\ calls'[c].result = Ok
                     => store' = WithoutDigests(calls[c].before, calls[c].digests)
                 /\ calls'[c].sent = <<>>]_vars

\* An undisturbed delete_batches call of a digest that was in the store and a
\* digest that was not has returned Ok.
C8_Witness ==
    \E c \in CallIds :
        /\ Done(c, "delete_batches") /\ calls[c].result = Ok /\ ~calls[c].interfered
        /\ \E k1, k2 \in 1 .. Len(calls[c].log) :
              calls[c].log[k1][3] /\ ~calls[c].log[k2][3]

----------------------------------------------------------------------------
(* Claims about request_batches *)

Scans(c) == calls[c].op = "request_batches"
ScanReturned(c) == Done(c, "request_batches") /\ calls[c].result = Ok

\* C4: the sizes of the batches in the response of request_batches add up to
\* at most 6,000,000, after every append of the scan (every prefix of the
\* response) and with total_size being their sum.
C4_ResponseWithinBudget ==
    \A c \in CallIds :
        Scans(c) =>
            /\ calls[c].total_size = SumSizes(calls[c].batches)
            /\ \A n \in 0 .. Len(calls[c].batches) :
                  SumSizes(SubSeq(calls[c].batches, 1, n)) <= MAX_REQUEST_BATCHES_RESPONSE_SIZE

\* A request_batches call over two chunks has returned a response that fills
\* the budget exactly and has reached the size limit.
C4_Witness ==
    \E c \in CallIds :
        /\ ScanReturned(c) /\ calls[c].is_size_limit_reached
        /\ NumChunks(calls[c].digests) >= 2
        /\ SumSizes(calls[c].batches) = MAX_REQUEST_BATCHES_RESPONSE_SIZE

\* C5: once a present batch does not fit in the remaining budget, no further
\* batch is appended to the response, from the same chunk or from a later one.
C5_NothingAppendedAfterLimit ==
    \A c \in CallIds : Scans(c) => ~calls[c].late

\* The first position from `from` on at which digest list ds has the digest of
\* batch b (0 if none).
PositionFrom(ds, b, from) ==
    LET at == {k \in from .. Len(ds) : ds[k] = digest(b)}
    IN  IF at = {} THEN 0 ELSE CHOOSE k \in at : \A k2 \in at : k <= k2

\* The batches bs appear in the order of their digests in ds from position `from`.
RECURSIVE InOrderFrom(_, _, _)
InOrderFrom(bs, ds, from) ==
    \/ bs = <<>>
    \/ LET k == PositionFrom(ds, Head(bs), from)
       IN  k > 0 /\ InOrderFrom(Tail(bs), ds, k + 1)

Holds(s, b) == s[digest(b)] = Some(b)

\* C6 as stated: the batches returned by request_batches(D) appear in the order
\* of their digests in D, and at one moment of the call the store held every
\* returned batch.
C6_OneMomentForResponse ==
    \A c \in CallIds :
        ScanReturned(c) =>
            /\ InOrderFrom(calls[c].batches, calls[c].digests, 1)
            /\ \E m \in 1 .. Len(calls[c].moments) :
                  \A n \in 1 .. Len(calls[c].batches) :
                      Holds(calls[c].moments[m], calls[c].batches[n])

\* C6 as amended: the batches returned appear in the order of their digests in
\* D, and for each chunk of 200 digests there is one moment of the call (the
\* chunk's multi_get) at which the store held every batch returned from that
\* chunk; one moment for the whole response exists when no call modified the
\* store between the reads of the chunks.
C6_OneMomentPerChunk ==
    \A c \in CallIds :
        ScanReturned(c) =>
            LET r == calls[c]
            IN  /\ InOrderFrom(r.batches, r.digests, 1)
                /\ Len(r.origin) = Len(r.batches)
                /\ \A n \in 1 .. Len(r.batches) :
                      /\ r.origin[n] \in 1 .. Len(r.read_at)
                      /\ Holds(r.moments[r.read_at[r.origin[n]]], r.batches[n])
                      /\ digest(r.batches[n]) \in Range(Chunk(r.digests, r.origin[n]))
                      /\ n > 1 => r.origin[n - 1] <= r.origin[n]
                /\ (\A k \in 1 .. Len(r.read_at) : r.read_at[k] = r.read_at[1])
                      => \E m \in 1 .. Len(r.moments) :
                            \A n \in 1 .. Len(r.batches) : Holds(r.moments[m], r.batches[n])

\* A request_batches call has returned batches of two chunks, read at different
\* contents of the store.
C6_Witness ==
    \E c \in CallIds :
        /\ ScanReturned(c) /\ Len(calls[c].batches) >= 2
        /\ calls[c].origin[1] # calls[c].origin[Len(calls[c].origin)]
        /\ calls[c].read_at[1] # calls[c].read_at[Len(calls[c].read_at)]

\* What the multi_gets of the call returned, position by position of the
\* digest list, over the first n chunks.
RECURSIVE Seen(_, _)
Seen(r, n) ==
    IF n = 0 THEN <<>>
    ELSE Seen(r, n - 1) \o multi_get(r.moments[r.read_at[n]], Chunk(r.digests, n))

\* C7: if request_batches(D) returns is_size_limit_reached = false, the
\* response holds, in order, the batch of every position of D whose digest the
\* store held when the position's chunk was read.
C7_CompleteUnlessLimit ==
    \A c \in CallIds :
        ScanReturned(c) /\ ~calls[c].is_size_limit_reached
            => calls[c].batches = flatten(Seen(calls[c], Len(calls[c].read_at)))

\* A request_batches call has returned, without reaching the limit, batches of
\* two chunks of which one was not in the store at the other's read.
C7_Witness ==
    \E c \in CallIds :
        /\ ScanReturned(c) /\ ~calls[c].is_size_limit_reached
        /\ Len(calls[c].batches) >= 2
        /\ calls[c].origin[1] # calls[c].origin[Len(calls[c].origin)]
        /\ ~Holds(calls[c].moments[calls[c].read_at[1]], calls[c].batches[Len(calls[c].batches)])

----------------------------------------------------------------------------
(* Claims about synchronize *)

Syncs(c) == calls[c].op = "synchronize"

Inserts(log) == {k \in 1 .. Len(log) : log[k][1] = "insert"}

\* C9: every store insert of a synchronize call has a key that is among the
\* call's request digests and that the call's probe found absent, and no key is
\* inserted twice by a call.
C9_InsertsOnlyMissing ==
    \A c \in CallIds :
        Syncs(c) =>
            LET log == calls[c].log
            IN  \A k \in Inserts(log) :
                    /\ log[k][2] \in Range(calls[c].digests)
                    /\ \E p \in 1 .. k - 1 : log[p] = <<"probe", log[k][2], FALSE>>
                    /\ \A k2 \in Inserts(log) : log[k2][2] = log[k][2] => k2 = k

\* A synchronize call has returned after a response of two copies of a batch,
\* which it inserted once, and one after a response with a batch it had not
\* asked for.
C9_Witness ==
    \E c \in CallIds :
        /\ Done(c, "synchronize") /\ Len(calls[c].response) = 2
        /\ Cardinality(Inserts(calls[c].log)) = 1
        /\ \/ calls[c].response[1] = calls[c].response[2]
           \/ \E n \in 1 .. 2 : digest(calls[c].response[n]) \notin Range(calls[c].request)

\* C10: in a synchronize call with is_certified = false every batch the call
\* inserts was passed to the validator, and accepted, earlier in the call; in
\* a call with is_certified = true the validator is not invoked.
C10_ValidatedBeforeInsert ==
    \A c \in CallIds :
        Syncs(c) =>
            LET log == calls[c].log
            IN  IF calls[c].is_certified
                THEN \A k \in 1 .. Len(log) : log[k][1] # "validate"
                ELSE \A k \in Inserts(log) :
                        \E v \in 1 .. k - 1 : log[v] = <<"validate", log[k][3], TRUE>>

\* A synchronize call with is_certified = false has inserted a batch and
\* returned Ok.
C10_Witness ==
    \E c \in CallIds :
        /\ Done(c, "synchronize") /\ ~calls[c].is_certified /\ calls[c].result = Ok
        /\ Inserts(calls[c].log) # {}

\* A synchronize call with is_certified = true has inserted a batch that the
\* validator rejects.
C10_WitnessCertified ==
    \E c \in CallIds :
        /\ Done(c, "synchronize") /\ calls[c].is_certified
        /\ \E k \in Inserts(calls[c].log) : ~validate_batch(calls[c].log[k][3])

\* The digests of the batches of the peer's response.
ResponseDigests(r) == {digest(r.response[k]) : k \in 1 .. Len(r.response)}

\* The requested digests the probe of the call found absent.
FoundMissing(r) == {d \in Digests : \E k \in 1 .. Len(r.log) : r.log[k] = <<"probe", d, FALSE>>}

FailedToSynchronize == Status("Internal", "failed to synchronize batches!")

\* The call has returned from the end of the loop over the response: its probe,
\* peer resolution, RPC, validations and store writes all succeeded.
SyncCompleted(c) ==
    /\ Done(c, "synchronize") /\ calls[c].rpcs = 1
    /\ calls[c].j > Len(calls[c].response)
    /\ calls[c].result.status \in {"Ok", "Internal"}

\* C11: a synchronize call whose probe, peer resolution, RPC, validations and
\* store writes all succeed returns Ok exactly when every digest it found
\* missing is the digest of a batch of the response, and Internal "failed to
\* synchronize batches!" otherwise; the batches it obtained for missing digests
\* are in the store when it returns (no delete_batches runs), and it has
\* inserted no digest it did not obtain.
C11_OkIffAllObtained ==
    \A c \in CallIds :
        SyncCompleted(c) =>
            LET r == calls[c]
                obtained == FoundMissing(r) \cap ResponseDigests(r)
            IN  /\ r.result = Ok <=> FoundMissing(r) \subseteq ResponseDigests(r)
                /\ r.result # Ok => r.result = FailedToSynchronize
                /\ \A k \in 1 .. Len(r.response) :
                      digest(r.response[k]) \in obtained => Stored(r.response[k])
                /\ \A k \in Inserts(r.log) : r.log[k][2] \in obtained
                /\ \A d \in obtained : \E k \in Inserts(r.log) : r.log[k][2] = d

\* A synchronize call that found two digests missing and obtained one of them
\* has returned Internal "failed to synchronize batches!".
C11_Witness ==
    \E c \in CallIds :
        /\ SyncCompleted(c) /\ calls[c].result = FailedToSynchronize
        /\ Cardinality(FoundMissing(calls[c])) = 2
        /\ Cardinality(Inserts(calls[c].log)) = 1

\* The call has returned from the resolution of a target that the committee
\* has no entry for, with a digest missing.
UnknownAuthority(c) ==
    /\ Done(c, "synchronize") /\ calls[c].network
    /\ calls[c].i > Len(calls[c].digests) /\ calls[c].missing # {}
    /\ calls[c].target \notin committee

\* C12: when synchronize has a missing digest and the committee has no entry
\* for the target authority, the call returns an Internal status, having
\* issued no RPC and written nothing to the store.
C12_UnknownAuthorityInternal ==
    \A c \in CallIds :
        UnknownAuthority(c) =>
            /\ calls[c].result.status = "Internal"
            /\ calls[c].rpcs = 0
            /\ Inserts(calls[c].log) = {}

----------------------------------------------------------------------------
(* Claims about the optional collaborators and request_batch *)

\* The first step of a call returns BadRequest and does nothing else: the
\* store is as it was and the call has recorded no store access, validation,
\* RPC or notification.
FailsFast(c) ==
    /\ calls'[c].pc = "done"
    /\ calls'[c].result.status = "BadRequest"
    /\ store' = store
    /\ calls[c].log = <<>> /\ calls'[c].log = <<>>
    /\ calls'[c].sent = <<>>

\* C13: synchronize with network = None and fetch_batches with batch_fetcher =
\* None return BadRequest by their first step, for every request (for
\* synchronize also when every requested digest is in the store), without
\* reading or writing the store, invoking the validator or the fetcher, or
\* issuing an RPC.
C13_UnconfiguredFailsFast ==
    [][\A c \in CallIds :
          /\ Leaves(c, "synchronize", "network") /\ ~calls[c].network
                => FailsFast(c) /\ calls'[c].rpcs = 0
          /\ Leaves(c, "fetch_batches", "batch_fetcher") /\ ~calls[c].batch_fetcher
                => FailsFast(c) /\ calls'[c].batches = <<>>]_vars

\* A synchronize call without network, all of whose requested digests are in
\* the store, has returned BadRequest.
C13_Witness ==
    \E c \in CallIds :
        /\ Done(c, "synchronize") /\ ~calls[c].network
        /\ calls[c].result.status = "BadRequest"
        /\ calls[c].digests # <<>>
        /\ \A d \in Range(calls[c].digests) : get(store, d) # None

\* C14: request_batch(d) returns by one store.get, which leaves the store as
\* it was and sends no notification: Ok with the stored batch when d is in the
\* store, Ok with an absent batch when it is not, and an error only when the
\* read fails, which is Internal.
C14_AbsenceInBand ==
    [][\A c \in CallIds :
          Leaves(c, "request_batch", "get")
              => /\ calls'[c].pc = "done"
                 /\ store' = store
                 /\ calls'[c].sent = <<>>
                 /\ \/ /\ calls'[c].result = Ok
                       /\ calls'[c].response = get(store, calls[c].batch)
                       /\ calls'[c].log = <<(<<"get", calls[c].batch>>)>>
                    \/ /\ calls'[c].result = Status("Internal", "failed to read from batch store")
                       /\ calls'[c].log = <<(<<"get_err", calls[c].batch>>)>>]_vars

\* A request_batch call of a digest that is not in the store has returned Ok
\* with an absent batch, while another call is in flight.
C14_Witness ==
    \E c \in CallIds :
        /\ Done(c, "request_batch") /\ calls[c].result = Ok
        /\ calls[c].response = None /\ get(store, calls[c].batch) = None
        /\ \E x \in CallIds : x # c /\ calls[x].pc \notin {"idle", "done"}

----------------------------------------------------------------------------
(* More claims about synchronize *)

\* The step of a synchronize call on a response batch whose digest is not in
\* the missing set.
ProcessesUnrequested(c) ==
    /\ Active(c, "synchronize") /\ calls[c].pc = "process"
    /\ calls[c].j <= Len(calls[c].response)
    /\ calls'[c].pc # "process" \/ calls'[c].j # calls[c].j
    /\ digest(calls[c].response[calls[c].j]) \notin calls[c].missing

\* The step only moves on to the next batch of the response: what the call
\* goes on to do and to return is what it does without the batch.
Ignored(c) ==
    /\ calls'[c].pc = "process" /\ calls'[c].j = calls[c].j + 1
    /\ calls'[c].missing = calls[c].missing
    /\ calls'[c].result = calls[c].result
    /\ Inserts(calls'[c].log) = Inserts(calls[c].log)
    /\ store' = store

\* C15 as stated: for both values of is_certified, a batch of the response
\* whose digest is not in the missing set is ignored: with it the call returns
\* the status and leaves the store as without it.
C15_UnrequestedIgnored ==
    [][\A c \in CallIds : ProcessesUnrequested(c) => Ignored(c)]_vars

\* C15 as amended: such a batch is ignored when is_certified is true or the
\* validator accepts the batch; when is_certified is false and the validator
\* rejects it, the call returns BadRequest at that batch without a store write
\* and processes no later batch of the response.
C15_UnrequestedIgnoredIfAccepted ==
    [][\A c \in CallIds :
          ProcessesUnrequested(c) =>
              IF calls[c].is_certified \/ validate_batch(calls[c].response[calls[c].j])
              THEN Ignored(c)
              ELSE /\ calls'[c].pc = "done"
                   /\ calls'[c].result = Status("BadRequest", "Invalid batch")
                   /\ calls'[c].j = calls[c].j
                   /\ Inserts(calls'[c].log) = Inserts(calls[c].log)
                   /\ store' = store]_vars

\* A synchronize call with is_certified = false has returned Ok after a
\* response that held a batch it had not asked for before the batch it stored.
C15_Witness ==
    \E c \in CallIds :
        /\ Done(c, "synchronize") /\ ~calls[c].is_certified /\ calls[c].result = Ok
        /\ Len(calls[c].response) = 2
        /\ digest(calls[c].response[1]) \notin Range(calls[c].request)
        /\ Inserts(calls[c].log) # {}

----------------------------------------------------------------------------
(* More claims about report_batch *)

Last(s) == s[Len(s)]

\* C16 as stated: of two report_batch calls of the same accepted batch, one
\* after the other or concurrent, each inserts (digest(b), b) and each sends a
\* report_others_batch for digest(b), also when the store holds the digest
\* already: every call of an accepted batch goes from its insert to its
\* notification and from there to Ok.
C16_EveryCallInsertsAndNotifies ==
    [][\A c \in CallIds :
          LET b == calls[c].batch
              m == WorkerOthersBatchMessage(digest(b), id)
          IN  /\ Leaves(c, "report_batch", "insert")
                    => /\ calls'[c].pc = "notify"
                       /\ store' = insert(store, digest(b), b)
              /\ Leaves(c, "report_batch", "notify")
                    => calls'[c].result = Ok /\ calls'[c].sent = <<m>>]_vars

\* C16 as amended: the worker does not deduplicate: the store insert of a
\* report_batch(b) call writes (digest(b), b) also when the store holds the
\* digest already, and the call then sends its own report_others_batch for
\* digest(b) whatever other calls have sent, unless the store insert or the
\* notification fails, and then the call returns Internal; every call that
\* returns Ok has inserted and has sent one notification.
C16_NoDeduplication ==
    [][\A c \in CallIds :
          LET b == calls[c].batch
              m == WorkerOthersBatchMessage(digest(b), id)
          IN  /\ Leaves(c, "report_batch", "insert")
                    => \/ /\ calls'[c].pc = "notify"
                          /\ store' = insert(store, digest(b), b)
                          /\ Last(calls'[c].log) = <<"insert", digest(b), b>>
                       \/ /\ calls'[c].pc = "done"
                          /\ calls'[c].result = Status("Internal", "failed to write to batch store")
              /\ Leaves(c, "report_batch", "notify")
                    => /\ calls'[c].pc = "done"
                       /\ \E k \in 1 .. Len(calls[c].log) : calls[c].log[k] = <<"insert", digest(b), b>>
                       /\ \/ calls'[c].result = Ok /\ calls'[c].sent = <<m>>
                          \/ calls'[c].result.status = "Internal" /\ calls'[c].sent = <<>>]_vars

\* A report_batch call has returned Ok, having sent its notification, while a
\* second call of the same batch has inserted it too and is about to send its
\* own.
C16_Witness ==
    \E c, x \in CallIds :
        /\ x # c
        /\ ReportReturned(c) /\ calls[c].result = Ok /\ Len(calls[c].sent) = 1
        /\ Active(x, "report_batch") /\ calls[x].pc = "notify"
        /\ calls[x].batch = calls[c].batch

\* C17: in a report_batch(b) call the store insert of digest(b) happens after
\* the validator has accepted b, and the report_others_batch for digest(b) is
\* sent after the call's store insert of digest(b) has succeeded.
C17_ValidateInsertNotify ==
    \A c \in CallIds :
        calls[c].op = "report_batch" =>
            LET log == calls[c].log
                b == calls[c].batch
            IN  /\ \A k \in 1 .. Len(log) :
                      /\ log[k][1] \in {"insert", "insert_err"}
                            => \E v \in 1 .. k - 1 : log[v] = <<"validate", b, TRUE>>
                      /\ log[k][1] \in {"notify", "notify_err"}
                            => \E p \in 1 .. k - 1 : log[p] = <<"insert", digest(b), b>>
                /\ calls[c].sent # <<>>
                      => \E k \in 1 .. Len(log) : log[k] = <<"notify", calls[c].sent[1]>>
                /\ calls[c].pc = "notify" => Len(log) = 2 /\ log[2][1] = "insert"

\* A report_batch call has validated, inserted and notified, in this order, and
\* returned Ok.
C17_Witness ==
    \E c \in CallIds :
        /\ ReportReturned(c) /\ calls[c].result = Ok
        /\ Len(calls[c].log) = 3
        /\ calls[c].log[1][1] = "validate" /\ calls[c].log[2][1] = "insert"
        /\ calls[c].log[3][1] = "notify"

----------------------------------------------------------------------------
(* Claims about failures *)

\* The step by which call c returns an error.
Fails(c, op) == Active(c, op) /\ calls'[c].pc = "done" /\ calls'[c].result # Ok

\* A step of a report_batch or synchronize call.
Writes(c) ==
    \/ Active(c, "report_batch") /\ calls'[c].pc # calls[c].pc
    \/ /\ Active(c, "synchronize")
       /\ \/ calls'[c].pc # calls[c].pc
          \/ calls'[c].i # calls[c].i
          \/ calls'[c].j # calls[c].j

\* C18: no handler rolls back a store mutation: the step by which a
\* report_batch, synchronize or delete_batches call returns an error leaves the
\* store as it is, and no step of a report_batch or synchronize call removes or
\* replaces an entry of the store.  So a report_batch whose notification fails
\* returns Internal with its batch in the store (unless a delete_batches call
\* removed it meanwhile), a synchronize that fails keeps what it inserted, and
\* a delete_batches that fails at a digest has removed the digests before it
\* and has left the others as they were.
C18_NoRollback ==
    [][\A c \in CallIds :
          /\ Fails(c, "report_batch") \/ Fails(c, "synchronize") \/ Fails(c, "delete_batches")
                => store' = store
          /\ Fails(c, "report_batch") /\ calls[c].pc = "notify"
                => /\ calls'[c].result.status = "Internal"
                   /\ ~calls[c].removed_after_insert => Holds(store', calls[c].batch)
          /\ Fails(c, "delete_batches") /\ ~calls[c].interfered
                => store' = WithoutDigests(calls[c].before,
                                           SubSeq(calls[c].digests, 1, calls[c].i - 1))
          /\ Writes(c)
                => \A d \in Digests : store[d] # None => store'[d] = store[d]]_vars

\* A synchronize call has returned BadRequest at a batch the validator
\* rejects, with the batch it inserted before in the store.
C18_Witness ==
    \E c \in CallIds :
        /\ Done(c, "synchronize") /\ calls[c].result.status = "BadRequest"
        /\ Inserts(calls[c].log) # {}
        /\ \A k \in Inserts(calls[c].log) : Holds(store, calls[c].log[k][3])

----------------------------------------------------------------------------
(* Claims about the RPC of synchronize *)

\* The call, with a network configured, has finished its probe and returned.
ProbedAndReturned(c) ==
    /\ Done(c, "synchronize") /\ calls[c].network
    /\ calls[c].i > Len(calls[c].digests)

\* The request_batches RPCs the call has issued.
Rpcs(log) == {k \in 1 .. Len(log) : log[k][1] = "rpc"}

\* The one RPC of the call asks for the digests the probe found absent, each
\* once.
AsksForMissing(r) ==
    /\ r.rpcs = 1 /\ Cardinality(Rpcs(r.log)) = 1
    /\ r.request \in Orders(FoundMissing(r))
    /\ \A k \in Rpcs(r.log) : r.log[k] = <<"rpc", r.request>>

\* The target authority resolves to a connected peer: lines 176-194.
Resolves(target) == target \in committee /\ target \in worker_cache /\ target \in peers

\* C19 as stated: a synchronize call issues no request_batches RPC when every
\* requested digest is in the store at the probe, and then returns Ok whatever
\* the target is; otherwise it issues exactly one, for exactly the digests the
\* probe found absent, each once.
C19_OneRpcIfMissing ==
    \A c \in CallIds :
        ProbedAndReturned(c) =>
            IF FoundMissing(calls[c]) = {}
            THEN calls[c].rpcs = 0 /\ Rpcs(calls[c].log) = {} /\ calls[c].result = Ok
            ELSE AsksForMissing(calls[c])

\* C19 as amended: a synchronize call issues at most one request_batches RPC:
\* none when every requested digest is in the store at the probe (it then
\* returns Ok whatever the target is), none when a digest is missing and the
\* target does not resolve to a connected peer (it then returns an error), and
\* otherwise exactly one, for exactly the digests the probe found absent, each
\* once.
C19_OneRpcIfMissingAndResolved ==
    \A c \in CallIds :
        /\ Syncs(c) => calls[c].rpcs <= 1 /\ Cardinality(Rpcs(calls[c].log)) = calls[c].rpcs
        /\ Syncs(c) /\ calls[c].rpcs = 1 => AsksForMissing(calls[c])
        /\ ProbedAndReturned(c) =>
              IF FoundMissing(calls[c]) = {}
              THEN calls[c].rpcs = 0 /\ calls[c].result = Ok
              ELSE IF Resolves(calls[c].target)
                   THEN AsksForMissing(calls[c])
                   ELSE calls[c].rpcs = 0 /\ calls[c].result # Ok

\* A synchronize call of a digest list that names one missing digest twice has
\* returned after one RPC for that digest, named once.
C19_Witness ==
    \E c \in CallIds :
        /\ ProbedAndReturned(c) /\ calls[c].rpcs = 1
        /\ Len(calls[c].digests) = 2 /\ calls[c].digests[1] = calls[c].digests[2]
        /\ Len(calls[c].request) = 1

\* C20 as stated: synchronize returns Internal "failed to synchronize batches!"
\* only if a requested digest is absent from the store when the call returns,
\* also when report_batch calls run concurrently (and no delete_batches runs).
C20_FailedOnlyIfAbsent ==
    \A c \in CallIds :
        Done(c, "synchronize") /\ calls[c].result = FailedToSynchronize
            => \E d \in Range(calls[c].digests) : get(store, d) = None

\* C20 as amended: synchronize returns Internal "failed to synchronize
\* batches!" only if a requested digest that its probe found absent was not
\* among the batches of the peer's response; each such digest is absent from
\* the store when the call returns unless another call inserted it after the
\* probe, so that without such an insert the call fails only with a requested
\* digest absent (no delete_batches runs).
C20_FailedOnlyIfNotObtained ==
    \A c \in CallIds :
        Done(c, "synchronize") /\ calls[c].result = FailedToSynchronize
            => LET r == calls[c]
               IN  /\ r.missing # {}
                   /\ r.missing = FoundMissing(r) \ ResponseDigests(r)
                   /\ r.missing \subseteq Range(r.digests)
                   /\ \A d \in r.missing : get(store, d) = None <=> d \notin r.elsewhere

\* A synchronize call has returned Internal "failed to synchronize batches!"
\* with every requested digest in the store: a report_batch call inserted,
\* after the probe, the digest the peer did not return.
C20_Witness ==
    \E c \in CallIds :
        /\ Done(c, "synchronize") /\ calls[c].result = FailedToSynchronize
        /\ calls[c].elsewhere # {}
        /\ \A d \in Range(calls[c].digests) : get(store, d) # None

====
